---- MODULE Spec2Model ----
(***************************************************************************)
(* A model of the multi-value parameter setters of strdistmatch            *)
(* (src/strdistmatch/multiSetter.go): MapMultiSetter, ListMultiSetter and  *)
(* the MultiSetterBase engine they share.  A parameter value has the form  *)
(*     name=subval="..." subval="..." ...                                  *)
(* Texts are sequences of one-character strings so that the regular        *)
(* expression, strings.Cut, strings.HasPrefix and strings.TrimPrefix are   *)
(* computed character by character as the code computes them.              *)
(* Spec and SpecParse are the SetWithVal calls on a setter with a small    *)
(* table of sub-value setters, SpecCheck is CheckSetter on setters as      *)
(* they may be constructed, SpecAlgo is the --algo parameter that          *)
(* addParams (src/strdistmatch/addParams.go) makes, followed by            *)
(* Prog.makeFinders.                                                       *)
(***************************************************************************)
EXTENDS Integers, Sequences, FiniteSets, TLC

VARIABLES
    cfg,        \* the setter as constructed: kind, AVals, the MustBeSet fields
    mapValue,   \* *MapMultiSetter.Value  : a function from names to records
    listValue,  \* *ListMultiSetter.Value : a sequence of NamedValue
    EntryVal,   \* MultiSetterBase.EntryVal, the scratch record
    arg,        \* the argument of the latest SetWithVal call
    nv,         \* the NamedValue returned by the latest GetNamedValue
    err,        \* the error returned by the latest call
    invoked,    \* the setters and post-actions invoked by the latest call
    ncalls,     \* the number of SetWithVal calls made so far
    setup,      \* the parts of the setter that only CheckSetter looks at
    valuePtr,   \* the Value pointer: nil, to a nil container, to a container
    checked,    \* CheckSetter has been called
    panicked,   \* the panic CheckSetter ended with, if any
    finders     \* what Prog.makeFinders has made, once it has been called

vars == <<cfg, mapValue, listValue, EntryVal, arg, nv, err, invoked, ncalls,
          setup, valuePtr, checked, panicked, finders>>

----------------------------------------------------------------------------
(* Bounds of the model.                                                    *)

\* the most sub-value segments in one generated argument
MaxSegs == 3
\* the most SetWithVal calls in one behaviour of the multi-call specification
MaxCalls == 3
\* the most keys of an EntryValSetterMap that CheckSetter is given
MaxKeys == 2
\* the most entries a container holds before CheckSetter is called
MaxPre == 2

----------------------------------------------------------------------------
(* Character classes of the regular expression fragments.                  *)

Lower == {"a","b","c","d","e","f","g","h","i","j","k","l","m",
          "n","o","p","q","r","s","t","u","v","w","x","y","z"}
Upper == {"A","B","C","D","E","F","G","H","I","J","K","L","M",
          "N","O","P","Q","R","S","T","U","V","W","X","Y","Z"}
Digit == {"0","1","2","3","4","5","6","7","8","9"}

\* [_a-zA-Z]
IsKeyStart(c) == c \in Lower \cup Upper \cup {"_"}
\* [_a-zA-Z0-9]
IsKeyChar(c) == IsKeyStart(c) \/ c \in Digit
\* \s
IsSpace(c) == c \in {" ", "\t", "\n", "\f", "\r"}

RECURSIVE SkipSpace(_, _)
SkipSpace(s, p) ==
    IF p <= Len(s) /\ IsSpace(s[p]) THEN SkipSpace(s, p + 1) ELSE p

RECURSIVE SkipKeyChars(_, _)
SkipKeyChars(s, p) ==
    IF p <= Len(s) /\ IsKeyChar(s[p]) THEN SkipKeyChars(s, p + 1) ELSE p

\* keyRE: the position after the key that starts at p (p itself when none)
keyRE(s, p) ==
    IF p <= Len(s) /\ IsKeyStart(s[p]) THEN SkipKeyChars(s, p + 1) ELSE p

\* eqRE as a bare '=' without the white space around it
eqREStrict(s, p) == IF p <= Len(s) /\ s[p] = "=" THEN p + 1 ELSE 0

\* eqRE: the position after \s*=\s* starting at p (0 when there is no '=')
eqRE(s, p) ==
    LET e == SkipSpace(s, p)
    IN  IF e <= Len(s) /\ s[e] = "=" THEN SkipSpace(s, e + 1) ELSE 0

\* strRE: the position after the longest run of non-quote characters
RECURSIVE strRE(_, _)
strRE(s, p) ==
    IF p <= Len(s) /\ s[p] # "\"" THEN strRE(s, p + 1) ELSE p

NoMatch == [ok |-> FALSE, whole |-> <<>>, key |-> <<>>, val |-> <<>>, end |-> 0]

\* The match of subValueRE that starts exactly at position p of s, if any.
\* Every quantifier is greedy and each is followed by a character outside
\* its class, so the match at a position is unique.
subValueRE(s, p) ==
    LET k0 == SkipSpace(s, p)
        k1 == keyRE(s, k0)
        q0 == eqRE(s, k1)
        v0 == q0 + 1
        v1 == strRE(s, v0)
        z  == SkipSpace(s, v1 + 1)
    IN  IF /\ k1 > k0
           /\ q0 # 0
           /\ q0 <= Len(s)
           /\ s[q0] = "\""
           /\ v1 <= Len(s)
        THEN [ok    |-> TRUE,
              whole |-> SubSeq(s, p, z - 1),
              key   |-> SubSeq(s, k0, k1 - 1),
              val   |-> SubSeq(s, v0, v1 - 1),
              end   |-> z]
        ELSE NoMatch

\* regexp.FindAllStringSubmatch(s, -1): the leftmost match, then the leftmost
\* match in what follows it, and so on.  Each element is the submatch slice
\* <<whole, key, val>>, read with wholeValIdx, keyIdx and valIdx.
RECURSIVE FindFrom(_, _)
FindFrom(s, p) ==
    IF p > Len(s) THEN <<>>
    ELSE LET m == subValueRE(s, p)
         IN  IF m.ok
             THEN <<(<<m.whole, m.key, m.val>>)>> \o FindFrom(s, m.end)
             ELSE FindFrom(s, p + 1)

FindAllStringSubmatch(s) == FindFrom(s, 1)

----------------------------------------------------------------------------
(* The string functions the parser uses.                                   *)

RECURSIVE IndexFrom(_, _, _)
IndexFrom(s, c, p) ==
    IF p > Len(s) THEN 0
    ELSE IF s[p] = c THEN p ELSE IndexFrom(s, c, p + 1)

\* strings.Cut(s, "=")
Cut(s) ==
    LET i == IndexFrom(s, "=", 1)
    IN  IF i = 0
        THEN [before |-> s, after |-> <<>>, found |-> FALSE]
        ELSE [before |-> SubSeq(s, 1, i - 1),
              after  |-> SubSeq(s, i + 1, Len(s)),
              found  |-> TRUE]

\* HasPrefix that finds every prefix present
HasPrefixAlways(s, prefix) == TRUE

\* strings.HasPrefix
HasPrefix(s, prefix) ==
    Len(prefix) <= Len(s) /\ SubSeq(s, 1, Len(prefix)) = prefix

\* strings.TrimPrefix
TrimPrefix(s, prefix) ==
    IF HasPrefix(s, prefix) THEN SubSeq(s, Len(prefix) + 1, Len(s)) ELSE s

----------------------------------------------------------------------------
(* The record type T, the sub-value setters and the setter's configuration.*)
(* The record has two integer fields, k and m, and a flag t that a         *)
(* post-action of k raises (as useGivenThreshold in addParams.go).         *)

\* the zero value of T: EntryVal of a newly constructed MultiSetterBase
ZeroVal == [k |-> 0, m |-> 0, t |-> FALSE]
\* MultiSetterBase.DfltEntryVal
DfltEntryVal == [k |-> 3, m |-> 5, t |-> FALSE]

\* the zero value NamedValue[S, T]{}
ZeroNamedValue == [Name |-> <<>>, Value |-> ZeroVal]

\* algoParams, the record type of the --algo parameter of strdistmatch,
\* with one field for each kind of setter that addParams gives it (an
\* integer with a check, a float with a post-action, a string with a
\* check) and the flag the post-action sets.  AlgoZeroVal is its zero
\* value, AlgoDfltEntryVal the DfltEntryVal that addParams gives.
dfltNGramLen == 3
AlgoZeroVal ==
    [nGramLen |-> 0, threshold |-> 0, useGivenThreshold |-> FALSE,
     stripRunes |-> <<>>]
AlgoDfltEntryVal == [AlgoZeroVal EXCEPT !.nGramLen = dfltNGramLen]

\* the setter with the configuration c has the tables of the two-field
\* record above (c.table = "test") or those of addParams
ZeroValOf(c) == IF c.table = "addParams" THEN AlgoZeroVal ELSE ZeroVal
DfltEntryValOf(c) ==
    IF c.table = "addParams" THEN AlgoDfltEntryVal ELSE DfltEntryVal
ZeroNamedValueOf(c) == [Name |-> <<>>, Value |-> ZeroValOf(c)]

\* the indexes of a submatch and its length (the const block of iota values)
wholeValIdx == 0
keyIdx == 1
valIdx == 2
expectedRegexpSubmatchLength == 3

\* error values: the kind of message and the values formatted into it
Error(kind, key, idx, text) ==
    [kind |-> kind, key |-> key, idx |-> idx, text |-> text]
Nil == Error("nil", <<>>, 0, <<>>)

\* the keys of EntryValSetterMap and of EntryValSMAliases
KeyK == <<"k">>
KeyM == <<"m">>
AliasJ == <<"j">>
AliasI == <<"i">>

\* MultiSetterBase.EntryValSMAliases
EntryValSMAliases == (AliasJ :> KeyK) @@ (AliasI :> KeyK)

\* keys and aliases of the --algo parameter
KeyNGramLen == <<"n", "G", "r", "a", "m", "L", "e", "n">>
KeyThreshold == <<"t", "h", "r", "e", "s", "h", "o", "l", "d">>
KeyStripRunes == <<"s", "t", "r", "i", "p", "R", "u", "n", "e", "s">>
AliasNgLen == <<"n", "g", "L", "e", "n">>
AliasThreshold == <<"T", "h", "r", "e", "s", "h", "o", "l", "d">>
AliasStripChars == <<"s", "t", "r", "i", "p", "C", "h", "a", "r", "s">>

\* EntryValSMAliases of addParams (one alias of each key modelled)
AlgoEntryValSMAliases ==
    (AliasNgLen :> KeyNGramLen) @@ (AliasThreshold :> KeyThreshold)
        @@ (AliasStripChars :> KeyStripRunes)

EntryValSMAliasesOf(c) ==
    IF c.table = "addParams" THEN AlgoEntryValSMAliases
    ELSE EntryValSMAliases

\* EntryValSetterMap of addParams: nGramLen is a psetter.Int with the
\* check ValGT(0), threshold a psetter.Float with the post-action that
\* sets useGivenThreshold, stripRunes a psetter.String with the check for
\* duplicate runes.  No field must be set.
AlgoEntryValSetterMap ==
    (KeyNGramLen :>
        [Setter |-> [type |-> "Int", field |-> "nGramLen", gtZero |-> TRUE],
         PostActionFuncs |-> <<>>,
         MustBeSet |-> FALSE])
    @@
    (KeyThreshold :>
        [Setter |-> [type |-> "Float", field |-> "threshold",
                     gtZero |-> FALSE],
         PostActionFuncs |-> <<"useGivenThreshold">>,
         MustBeSet |-> FALSE])
    @@
    (KeyStripRunes :>
        [Setter |-> [type |-> "String", field |-> "stripRunes",
                     gtZero |-> FALSE],
         PostActionFuncs |-> <<>>,
         MustBeSet |-> FALSE])

\* MultiSetterBase.EntryValSetterMap: k is an integer that must be greater
\* than zero and has three post-actions, m is an unchecked integer.  Which
\* of them must be set is part of the configuration c.
EntryValSetterMap(c) ==
    IF c.table = "addParams" THEN AlgoEntryValSetterMap
    ELSE
    (KeyK :> [Setter          |-> [type |-> "Int", field |-> "k",
                                   gtZero |-> TRUE],
              PostActionFuncs |-> <<"raiseFlag", "vetoNine", "audit">>,
              MustBeSet       |-> KeyK \in c.MustBeSet])
    @@
    (KeyM :> [Setter          |-> [type |-> "Int", field |-> "m",
                                   gtZero |-> FALSE],
              PostActionFuncs |-> <<>>,
              MustBeSet       |-> KeyM \in c.MustBeSet])

\* the zero value EntryValSetter{}
ZeroEntryValSetter ==
    [Setter          |-> [type |-> "", field |-> "", gtZero |-> FALSE],
     PostActionFuncs |-> <<>>,
     MustBeSet       |-> FALSE]

DigitVal(ch) ==
    CASE ch = "0" -> 0 [] ch = "1" -> 1 [] ch = "2" -> 2 [] ch = "3" -> 3
      [] ch = "4" -> 4 [] ch = "5" -> 5 [] ch = "6" -> 6 [] ch = "7" -> 7
      [] ch = "8" -> 8 [] ch = "9" -> 9

RECURSIVE Decimal(_)
Decimal(s) ==
    IF s = <<>> THEN 0
    ELSE 10 * Decimal(SubSeq(s, 1, Len(s) - 1)) + DigitVal(s[Len(s)])

\* the conversion of the integer setters: a non-empty run of digits
IsNumber(s) == s # <<>> /\ \A i \in 1..Len(s) : s[i] \in Digit

\* the loop of the check of stripRunes over runeSlc from index i on, with
\* the map runeIdx: it fails at a rune that is a key of runeIdx, and it
\* puts nothing into runeIdx
RECURSIVE stripRunesLoop(_, _, _)
stripRunesLoop(runeSlc, i, runeIdx) ==
    IF i > Len(runeSlc) THEN Nil
    ELSE IF runeSlc[i] \in DOMAIN runeIdx
         THEN Error("duplicateRunes", <<runeSlc[i]>>, i, runeSlc)
         ELSE stripRunesLoop(runeSlc, i + 1, runeIdx)

\* the check of the stripRunes setter: runeIdx starts as an empty map
stripRunesCheck(s) == stripRunesLoop(s, 1, <<>>)

\* param.Setter.SetWithVal of the setters used: the value is converted,
\* then checked, and only then stored in its field of the scratch record.
\* An Int or Float setter is given runs of digits, which convert, or text
\* with a character that is none, which does not; a String setter takes
\* the value as it is and has the check of stripRunes.
SetterSetWithVal(setter, evVal, ev) ==
    IF setter.type = "String"
    THEN IF stripRunesCheck(evVal) # Nil THEN [ok |-> FALSE, ev |-> ev]
         ELSE [ok |-> TRUE, ev |-> [ev EXCEPT ![setter.field] = evVal]]
    ELSE IF ~IsNumber(evVal) THEN [ok |-> FALSE, ev |-> ev]
    ELSE IF setter.gtZero /\ ~(Decimal(evVal) > 0)
         THEN [ok |-> FALSE, ev |-> ev]
    ELSE [ok |-> TRUE, ev |-> [ev EXCEPT ![setter.field] = Decimal(evVal)]]

\* one MultiSetterActionFunc: raiseFlag sets the flag of the scratch record,
\* vetoNine fails on the value "9", audit only observes.
PostAction(f, evKey, evVal, ev) ==
    CASE f = "raiseFlag" -> [ok |-> TRUE, ev |-> [ev EXCEPT !.t = TRUE]]
      [] f = "useGivenThreshold" ->
            [ok |-> TRUE, ev |-> [ev EXCEPT !.useGivenThreshold = TRUE]]
      [] f = "vetoNine"  -> [ok |-> evVal # <<"9">>, ev |-> ev]
      [] OTHER           -> [ok |-> TRUE, ev |-> ev]

----------------------------------------------------------------------------
(* MultiSetterBase.                                                        *)

\* checkParamPartName without the check for an empty name
checkParamPartNameNoEmpty(c, name) ==
    IF c.AVals # {} /\ name \notin c.AVals
    THEN Error("badName", name, 0, <<>>)
    ELSE Nil

\* checkParamPartName
checkParamPartName(c, name) ==
    IF name = <<>> THEN Error("emptyName", <<>>, 0, <<>>)
    ELSE IF c.AVals # {} /\ name \notin c.AVals
         THEN Error("badName", name, 0, <<>>)
         ELSE Nil

\* getSetter returning the key as written where it should return the key
\* the alias stands for
getSetterRawKey(c, i, evKey) ==
    IF evKey \in DOMAIN EntryValSetterMap(c)
    THEN [evKey |-> evKey, evs |-> EntryValSetterMap(c)[evKey], err |-> Nil]
    ELSE IF /\ evKey \in DOMAIN EntryValSMAliasesOf(c)
            /\ EntryValSMAliasesOf(c)[evKey] \in DOMAIN EntryValSetterMap(c)
         THEN [evKey |-> evKey,
               evs   |-> EntryValSetterMap(c)[EntryValSMAliasesOf(c)[evKey]],
               err   |-> Nil]
         ELSE [evKey |-> evKey, evs |-> ZeroEntryValSetter,
               err   |-> Error("badSubValName", evKey, i + 1, <<>>)]

\* getSetter on the tables evsm (EntryValSetterMap) and aliases
\* (EntryValSMAliases): the canonical key, its EntryValSetter and an error
getSetterIn(evsm, aliases, i, evKey) ==
    IF evKey \in DOMAIN evsm
    THEN [evKey |-> evKey, evs |-> evsm[evKey], err |-> Nil]
    ELSE IF evKey \in DOMAIN aliases /\ aliases[evKey] \in DOMAIN evsm
         THEN [evKey |-> aliases[evKey], evs |-> evsm[aliases[evKey]],
               err   |-> Nil]
         ELSE [evKey |-> evKey, evs |-> ZeroEntryValSetter,
               err   |-> Error("badSubValName", evKey, i + 1, <<>>)]

\* getSetter of the setter with the configuration c
getSetter(c, i, evKey) ==
    getSetterIn(EntryValSetterMap(c), EntryValSMAliasesOf(c), i, evKey)

\* RunPostActions going on to the later callbacks after one has failed
RECURSIVE RunPostActionsOn(_, _, _, _, _)
RunPostActionsOn(st, funcs, n, evKey, evVal) ==
    IF n > Len(funcs) THEN st
    ELSE LET r  == PostAction(funcs[n], evKey, evVal, st.ev)
             s1 == [st EXCEPT !.ev  = r.ev,
                              !.inv = Append(@, <<funcs[n], evKey, evVal>>),
                              !.err = IF ~r.ok /\ @ = Nil
                                      THEN Error("postAction", evKey, n, evVal)
                                      ELSE @]
         IN  RunPostActionsOn(s1, funcs, n + 1, evKey, evVal)

\* the loop over evs.PostActionFuncs; st is the state of the parse
RECURSIVE RunPostActions(_, _, _, _, _)
RunPostActions(st, funcs, n, evKey, evVal) ==
    IF n > Len(funcs) THEN st
    ELSE LET r  == PostAction(funcs[n], evKey, evVal, st.ev)
             s1 == [st EXCEPT !.ev  = r.ev,
                              !.inv = Append(@, <<funcs[n], evKey, evVal>>)]
         IN  IF ~r.ok
             THEN [s1 EXCEPT !.err = Error("postAction", evKey, n, evVal)]
             ELSE RunPostActions(s1, funcs, n + 1, evKey, evVal)

\* setWithSubval.  st.val is wholeValue, st.dups the dups map, st.ev the
\* scratch record EntryVal, st.inv the setters and post-actions invoked.
setWithSubval(c, st, i, sVal) ==
    IF Len(sVal) # expectedRegexpSubmatchLength
    THEN [st EXCEPT !.err = Error("cannotParse", <<>>, i + 1, <<>>)]
    ELSE
    LET wholeSubValue == sVal[wholeValIdx + 1] IN
    IF ~HasPrefix(st.val, wholeSubValue)
    THEN [st EXCEPT !.err = Error("textBefore", <<>>, i + 1, wholeSubValue)]
    ELSE
    LET s1 == [st EXCEPT !.val = TrimPrefix(@, wholeSubValue)]
        g  == getSetter(c, i, sVal[keyIdx + 1])
        evVal == sVal[valIdx + 1]
    IN  IF g.err # Nil THEN [s1 EXCEPT !.err = g.err]
        ELSE IF g.evKey \in DOMAIN s1.dups
        THEN [s1 EXCEPT !.err = Error("setTwice", g.evKey, i + 1,
                                      <<s1.dups[g.evKey], wholeSubValue>>)]
        ELSE
        LET s2 == [s1 EXCEPT !.dups = (g.evKey :> wholeSubValue) @@ @]
            r  == SetterSetWithVal(g.evs.Setter, evVal, s2.ev)
            s3 == [s2 EXCEPT !.ev  = r.ev,
                             !.inv = Append(@, <<"Setter", g.evKey, evVal>>)]
        IN  IF ~r.ok
            THEN [s3 EXCEPT !.err = Error("setter", g.evKey, i + 1, evVal)]
            ELSE RunPostActions(s3, g.evs.PostActionFuncs, 1, g.evKey, evVal)

\* the loop of GetNamedValue over subValues, stopping at the first error
RECURSIVE SetSubvals(_, _, _, _)
SetSubvals(c, st, subValues, i) ==
    IF i >= Len(subValues) THEN st
    ELSE LET s1 == setWithSubval(c, st, i, subValues[i + 1])
         IN  IF s1.err # Nil THEN s1
             ELSE SetSubvals(c, s1, subValues, i + 1)

\* MissingKeys with the MustBeSet check left out
MissingKeysNone(c, dups) == {}

\* the keys whose EntryValSetter has MustBeSet and that are not in dups
MissingKeys(c, dups) ==
    {evKey \in DOMAIN EntryValSetterMap(c) :
        EntryValSetterMap(c)[evKey].MustBeSet /\ evKey \notin DOMAIN dups}

Outcome(n, e, ev, inv) == [nv |-> n, err |-> e, ev |-> ev, inv |-> inv]

\* NameOnlyValue returning the scratch record
NameOnlyValueScratch(c, ev) == ev

\* TextLeft never reporting the text that is left
TextLeftIgnored(val) == FALSE

\* the record returned for an argument without '=': s.DfltEntryVal, whatever
\* the scratch record ev holds
NameOnlyValue(c, ev) == DfltEntryValOf(c)

\* "if any of the text is left after parsing, that is an error"
TextLeft(val) == val # <<>>

\* ResetEntryVal leaving the scratch record as the earlier call left it
ResetEntryValKept(c, ev) == ev

\* "s.EntryVal = s.DfltEntryVal": the scratch record at the start of a
\* parse that has a field list, whatever it held
ResetEntryVal(c, ev) == DfltEntryValOf(c)

\* GetNamedValue: the set of possible outcomes of a call with scratch
\* record ev.  Each outcome is the returned NamedValue and error, the
\* scratch record the call leaves and the setters it invoked.  The range
\* over EntryValSetterMap visits the keys in an unspecified order, so any
\* missing key may be the one that is reported.
GetNamedValue(c, ev, paramVal) ==
    LET cut   == Cut(paramVal)
        name  == cut.before
        val   == cut.after
        nmErr == checkParamPartName(c, name)
    IN
    IF nmErr # Nil THEN {Outcome(ZeroNamedValueOf(c), nmErr, ev, <<>>)}
    ELSE IF ~cut.found
    THEN {Outcome([Name |-> name, Value |-> NameOnlyValue(c, ev)], Nil, ev, <<>>)}
    ELSE
    LET subValues == FindAllStringSubmatch(val) IN
    IF Len(subValues) = 0
    THEN {Outcome(ZeroNamedValueOf(c), Error("noValues", <<>>, 0, val),
                  ResetEntryVal(c, ev), <<>>)}
    ELSE
    LET st == SetSubvals(c,
                         [val |-> val, dups |-> <<>>,
                          ev |-> ResetEntryVal(c, ev),
                          inv |-> <<>>, err |-> Nil],
                         subValues, 0)
    IN  IF st.err # Nil
        THEN {Outcome(ZeroNamedValueOf(c), st.err, st.ev, st.inv)}
        ELSE IF MissingKeys(c, st.dups) # {}
        THEN {Outcome(ZeroNamedValueOf(c), Error("mustBeSet", evKey, 0, <<>>),
                      st.ev, st.inv) : evKey \in MissingKeys(c, st.dups)}
        ELSE IF TextLeft(st.val)
        THEN {Outcome(ZeroNamedValueOf(c), Error("textAtEnd", <<>>, 0, st.val),
                      st.ev, st.inv)}
        ELSE {Outcome([Name |-> name, Value |-> st.ev], Nil, st.ev, st.inv)}

----------------------------------------------------------------------------
(* The arguments given to SetWithVal.  An argument is a name, optionally   *)
(* followed by '=' and a list of segments drawn from a fixed vocabulary;   *)
(* Render gives the text the setter receives.  Each segment records what   *)
(* it is meant to be, so that a property can speak of the argument without *)
(* using the parser.                                                       *)

Q == "\""

Segment(text, class, key, canon, val, num) ==
    [text |-> text, class |-> class, key |-> key, canon |-> canon,
     val |-> val, num |-> num]

\* the text key="val"
Assignment(key, val) == key \o <<"=", Q>> \o val \o <<Q>>

\* class: "assign" is a key="value" assignment of a known key with a value
\* its setter and post-actions accept; "spaced" is one with white space
\* around its '='; "rejected" has a value the setter of k refuses; "vetoed"
\* has a value a post-action of k refuses; "unknown" has a key that is
\* neither a key nor an alias; "junk" and "space" are no assignments.
Seg ==
    [K1 |-> Segment(<<"k", "=", Q, "1", Q>>,
                    "assign", KeyK, KeyK, <<"1">>, 1),
     J2 |-> Segment(<<"j", "=", Q, "2", Q>>,
                    "assign", AliasJ, KeyK, <<"2">>, 2),
     I4 |-> Segment(<<"i", "=", Q, "4", Q>>,
                    "assign", AliasI, KeyK, <<"4">>, 4),
     M7 |-> Segment(<<" ", "m", "=", Q, "7", Q, " ">>,
                    "assign", KeyM, KeyM, <<"7">>, 7),
     KW |-> Segment(<<"k", " ", "=", " ", Q, "6", Q>>,
                    "spaced", KeyK, KeyK, <<"6">>, 6),
     K0 |-> Segment(<<"k", "=", Q, "0", Q>>,
                    "rejected", KeyK, KeyK, <<"0">>, 0),
     K9 |-> Segment(<<"k", "=", Q, "9", Q>>,
                    "vetoed", KeyK, KeyK, <<"9">>, 9),
     Z1 |-> Segment(<<"_", "z", "9", "=", Q, "1", Q>>,
                    "unknown", <<"_", "z", "9">>, <<"_", "z", "9">>, <<"1">>, 1),
     XX |-> Segment(<<"!">>, "junk", <<>>, <<>>, <<>>, 0),
     SP |-> Segment(<<" ">>, "space", <<>>, <<>>, <<>>, 0),
     TH |-> Segment(Assignment(KeyThreshold, <<"2">>),
                    "assign", KeyThreshold, KeyThreshold, <<"2">>, 2),
     TA |-> Segment(Assignment(AliasThreshold, <<"4">>),
                    "assign", AliasThreshold, KeyThreshold, <<"4">>, 4),
     TX |-> Segment(Assignment(KeyThreshold, <<"x">>),
                    "rejected", KeyThreshold, KeyThreshold, <<"x">>, 0),
     NG |-> Segment(Assignment(KeyNGramLen, <<"2">>),
                    "assign", KeyNGramLen, KeyNGramLen, <<"2">>, 2),
     SR |-> Segment(Assignment(KeyStripRunes, <<"a", "b">>),
                    "assign", KeyStripRunes, KeyStripRunes, <<"a", "b">>, 0),
     SC |-> Segment(Assignment(AliasStripChars, <<"a">>),
                    "assign", AliasStripChars, KeyStripRunes, <<"a">>, 0),
     SD |-> Segment(Assignment(KeyStripRunes, <<"a", "b", "a">>),
                    "dupRunes", KeyStripRunes, KeyStripRunes,
                    <<"a", "b", "a">>, 0)]

\* the segments of the arguments given to the setters with the test tables
SegIds == {"K1", "J2", "I4", "M7", "KW", "K0", "K9", "Z1", "XX", "SP"}

RECURSIVE Flatten(_)
Flatten(segs) ==
    IF segs = <<>> THEN <<>> ELSE Seg[Head(segs)].text \o Flatten(Tail(segs))

NameA == <<"a">>
NameB == <<"b">>
Names == {<<>>, NameA, NameB}

Arg(name, eq, segs) == [name |-> name, eq |-> eq, segs |-> segs]

\* the text of an argument
Render(a) == a.name \o (IF a.eq THEN <<"=">> \o Flatten(a.segs) ELSE <<>>)

SegLists == UNION {[1..n -> SegIds] : n \in 0..MaxSegs}

\* every argument of up to MaxSegs segments
Args ==
    {Arg(n, FALSE, <<>>) : n \in Names}
        \cup {Arg(n, TRUE, l) : n \in Names, l \in SegLists}

\* the arguments of the multi-call specification: one of each outcome
SeqArgs ==
    {Arg(NameA, FALSE, <<>>), Arg(NameB, FALSE, <<>>), Arg(<<>>, FALSE, <<>>),
     Arg(NameA, TRUE, <<>>),
     Arg(NameA, TRUE, <<"K1">>), Arg(NameB, TRUE, <<"J2">>),
     Arg(NameA, TRUE, <<"M7">>), Arg(NameA, TRUE, <<"K1", "M7">>),
     Arg(NameA, TRUE, <<"M7", "KW">>),
     Arg(NameA, TRUE, <<"K1", "J2">>), Arg(NameA, TRUE, <<"M7", "K0">>),
     Arg(NameA, TRUE, <<"M7", "K9">>), Arg(NameA, TRUE, <<"M7", "Z1">>),
     Arg(NameA, TRUE, <<"XX", "K1">>), Arg(NameA, TRUE, <<"K1", "XX">>)}

\* two of the algorithm names that addParams allows
NameCosine == <<"c", "o", "s", "i", "n", "e">>
NameHamming == <<"h", "a", "m", "m", "i", "n", "g">>
AlgoAVals == {NameCosine, NameHamming}

\* the --algo setter that addParams makes
AlgoConfig ==
    [kind |-> "list", AVals |-> AlgoAVals, MustBeSet |-> {},
     table |-> "addParams"]

\* the --algo arguments: threshold given by its key (TH), by its alias
\* (TA), given a value that is no number (TX), and not given; stripRunes
\* with distinct runes (SR, SC) and with a rune twice (SD)
AlgoArgs ==
    {Arg(NameCosine, FALSE, <<>>), Arg(NameHamming, FALSE, <<>>),
     Arg(NameB, FALSE, <<>>),
     Arg(NameCosine, TRUE, <<"TH">>), Arg(NameHamming, TRUE, <<"TA">>),
     Arg(NameCosine, TRUE, <<"NG">>), Arg(NameHamming, TRUE, <<"NG", "TA">>),
     Arg(NameCosine, TRUE, <<"SR">>), Arg(NameHamming, TRUE, <<"SC">>),
     Arg(NameCosine, TRUE, <<"SD">>), Arg(NameCosine, TRUE, <<"TH", "SD">>),
     Arg(NameCosine, TRUE, <<"TX">>), Arg(NameCosine, TRUE, <<"TH", "TA">>),
     Arg(NameHamming, TRUE, <<"TH", "XX">>)}

\* the configurations: the adapter, the allowed names, the mandatory keys
Configs ==
    [kind : {"map", "list"},
     AVals : {{}, {NameA}},
     MustBeSet : SUBSET {KeyK, KeyM},
     table : {"test"}]

----------------------------------------------------------------------------
(* CheckSetter.  The setter it is given is described by cfg (the adapter   *)
(* and AVals), by the Value pointer and the container behind it, and by    *)
(* setup: the allow flag of the adapter, whether AVals.Check accepts the   *)
(* allowed values, the EntryValSetterMap (each key with the kind of its     *)
(* Setter) and the EntryValSMAliases.                                      *)

Panic(kind, key) == [kind |-> kind, key |-> key]
NoPanic == Panic("none", <<>>)

\* evsKeyRE.MatchString(k): the expression is not anchored, so it matches
\* when a key starts at some position of k
MatchString(k) == \E p \in 1..Len(k) : keyRE(k, p) > p

\* MapCheckValue taking no notice of AllowHiddenMapEntries
MapCheckValueStrict(c, su, ptr, m) ==
    IF ptr = "nil"
    THEN [panics |-> {Panic("nilValue", <<>>)}, ptr |-> ptr]
    ELSE [panics |-> IF c.AVals = {} THEN {}
                     ELSE {Panic("badEntry", k) : k \in DOMAIN m \ c.AVals},
          ptr    |-> "container"]

\* MapMultiSetter.checkValue: the panics it may end with (none when it
\* returns) and the Value pointer it leaves
MapCheckValue(c, su, ptr, m) ==
    IF ptr = "nil"
    THEN [panics |-> {Panic("nilValue", <<>>)}, ptr |-> ptr]
    ELSE [panics |-> IF c.AVals = {} \/ su.allow THEN {}
                     ELSE {Panic("badEntry", k) : k \in DOMAIN m \ c.AVals},
          ptr    |-> "container"]

\* ListMultiSetter.checkValue
ListCheckValue(c, su, ptr, l) ==
    IF ptr = "nil"
    THEN [panics |-> {Panic("nilValue", <<>>)}, ptr |-> ptr]
    ELSE [panics |-> IF c.AVals = {} \/ su.allow THEN {}
                     ELSE {Panic("badEntry", l[i].Name) :
                            i \in {j \in 1..Len(l) : l[j].Name \notin c.AVals}},
          ptr    |-> ptr]

\* checkAllowedValues
checkAllowedValues(c, su) ==
    IF c.AVals = {} THEN {}
    ELSE IF ~su.avalsOK THEN {Panic("badAVals", <<>>)} ELSE {}

\* checkEntryValSetters: the range visits the keys in an unspecified order
\* and panics at the first key that fails one of its three checks
checkEntryValSetters(su) ==
    IF DOMAIN su.evsm = {} THEN {Panic("noSetters", <<>>)}
    ELSE {Panic("badKey", k) : k \in {x \in DOMAIN su.evsm : ~MatchString(x)}}
         \cup {Panic("noValueReq", k) :
                k \in {x \in DOMAIN su.evsm :
                        MatchString(x) /\ su.evsm[x] = "noValue"}}
         \cup {Panic("setterCheck", k) :
                k \in {x \in DOMAIN su.evsm :
                        MatchString(x) /\ su.evsm[x] = "failsCheck"}}

\* checkEntryValSetterMapAliases without the check of the alias targets
checkAliasKeysOnly(su) ==
    {Panic("aliasIsKey", k) :
        k \in {x \in DOMAIN su.aliases : x \in DOMAIN su.evsm}}

\* checkEntryValSetterMapAliases
checkEntryValSetterMapAliases(su) ==
    {Panic("aliasIsKey", k) :
        k \in {x \in DOMAIN su.aliases : x \in DOMAIN su.evsm}}
    \cup {Panic("aliasNoTarget", k) :
            k \in {x \in DOMAIN su.aliases :
                    x \notin DOMAIN su.evsm
                        /\ su.aliases[x] \notin DOMAIN su.evsm}}

\* CheckMultiSetter: the three checks in turn
CheckMultiSetter(c, su) ==
    IF checkAllowedValues(c, su) # {} THEN checkAllowedValues(c, su)
    ELSE IF checkEntryValSetters(su) # {} THEN checkEntryValSetters(su)
    ELSE checkEntryValSetterMapAliases(su)

\* CheckSetter after checkValue has given v: the panics it may end with,
\* NoPanic when it returns
CheckSetterPanics(c, su, v) ==
    IF v.panics # {} THEN v.panics
    ELSE IF CheckMultiSetter(c, su) # {} THEN CheckMultiSetter(c, su)
    ELSE {NoPanic}

\* the keys and the kinds of Setter of the EntryValSetterMaps checked
KeyPool ==
    {KeyK, KeyM, <<"1", "a", "b", "c">>, <<"a", "-", "b">>,
     <<"a", " ", "b">>, <<"9">>}
SetterKinds == {"good", "noValue", "failsCheck"}

\* the alias tables checked
AliasKeyPool == {AliasJ, KeyK}
AliasTargetPool == {KeyK, KeyM, <<"x">>}

\* the setters CheckSetter is given
Setups ==
    [allow   : BOOLEAN,
     avalsOK : BOOLEAN,
     evsm    : UNION {[ks -> SetterKinds] :
                        ks \in {x \in SUBSET KeyPool :
                                    Cardinality(x) <= MaxKeys}},
     aliases : UNION {[ks -> AliasTargetPool] : ks \in SUBSET AliasKeyPool}]

\* the setter of the specifications of SetWithVal, which passes CheckSetter
StdSetup ==
    [allow   |-> FALSE,
     avalsOK |-> TRUE,
     evsm    |-> [k \in {KeyK, KeyM} |-> "good"],
     aliases |-> EntryValSMAliases]

\* the entries a container holds before CheckSetter is called
PreMaps ==
    UNION {[ns -> {DfltEntryVal}] : ns \in SUBSET {NameA, NameB}}
PreLists ==
    UNION {[1..n -> [Name : {NameA, NameB}, Value : {DfltEntryVal}]] :
            n \in 0..MaxPre}

----------------------------------------------------------------------------
(* The state machine.                                                      *)

NoArg == Arg(<<>>, FALSE, <<>>)

\* makeFinders has not been called
NoFinders == [made |-> FALSE, ok |-> FALSE, fcs |-> <<>>]

\* the setter after construction and CheckSetter: an empty container, the
\* scratch record at its zero value, no call made
Init ==
    /\ cfg \in Configs
    /\ mapValue = <<>>
    /\ listValue = <<>>
    /\ EntryVal = ZeroVal
    /\ arg = NoArg
    /\ nv = ZeroNamedValue
    /\ err = Nil
    /\ invoked = <<>>
    /\ ncalls = 0
    /\ setup = StdSetup
    /\ valuePtr = "container"
    /\ checked = TRUE
    /\ panicked = NoPanic
    /\ finders = NoFinders

\* MapStore without the early return on an error
MapStoreAlways(m, r) == (r.nv.Name :> r.nv.Value) @@ m

\* MapStore keeping the entry the map already has for the name
MapStoreKeep(m, r) ==
    IF r.err # Nil THEN m ELSE m @@ (r.nv.Name :> r.nv.Value)

\* ListStore keeping one record for a name, as a map would
ListStoreByName(l, r) ==
    IF r.err # Nil THEN l
    ELSE IF \E i \in 1..Len(l) : l[i].Name = r.nv.Name
         THEN [i \in 1..Len(l) |->
                    IF l[i].Name = r.nv.Name THEN r.nv ELSE l[i]]
         ELSE Append(l, r.nv)

\* MapMultiSetter.SetWithVal after GetNamedValue has returned r: an error is
\* returned at once, otherwise (*s.Value)[nv.Name] = nv.Value
MapStore(m, r) == IF r.err # Nil THEN m ELSE (r.nv.Name :> r.nv.Value) @@ m

\* ListMultiSetter.SetWithVal after GetNamedValue has returned r: an error
\* is returned at once, otherwise (*s.Value) = append((*s.Value), nv)
ListStore(l, r) == IF r.err # Nil THEN l ELSE Append(l, r.nv)

\* MapMultiSetter.SetWithVal
MapSetWithVal(a) ==
    /\ cfg.kind = "map"
    /\ \E r \in GetNamedValue(cfg, EntryVal, Render(a)) :
        /\ EntryVal' = r.ev
        /\ nv' = r.nv
        /\ err' = r.err
        /\ invoked' = r.inv
        /\ mapValue' = MapStore(mapValue, r)
    /\ arg' = a
    /\ ncalls' = ncalls + 1
    /\ UNCHANGED <<cfg, listValue, setup, valuePtr, checked, panicked,
                   finders>>

\* ListMultiSetter.SetWithVal
ListSetWithVal(a) ==
    /\ cfg.kind = "list"
    /\ \E r \in GetNamedValue(cfg, EntryVal, Render(a)) :
        /\ EntryVal' = r.ev
        /\ nv' = r.nv
        /\ err' = r.err
        /\ invoked' = r.inv
        /\ listValue' = ListStore(listValue, r)
    /\ arg' = a
    /\ ncalls' = ncalls + 1
    /\ UNCHANGED <<cfg, mapValue, setup, valuePtr, checked, panicked,
                   finders>>

\* a sequence of up to MaxCalls calls with arguments of SeqArgs
Next ==
    \/ ncalls < MaxCalls /\ \E a \in SeqArgs : MapSetWithVal(a)
    \/ ncalls < MaxCalls /\ \E a \in SeqArgs : ListSetWithVal(a)

Spec == Init /\ [][Next]_vars

\* one call on the newly constructed setter, with any argument of Args
NextParse ==
    \/ ncalls = 0 /\ \E a \in Args : MapSetWithVal(a)
    \/ ncalls = 0 /\ \E a \in Args : ListSetWithVal(a)

SpecParse == Init /\ [][NextParse]_vars

\* strdist.DefaultThresholds: a threshold for each algorithm name.  The
\* numbers stand for those of the library: they differ by name and none of
\* them is a number that an argument gives or the zero value.
DefaultThresholds == [n \in AlgoAVals |-> 0 - Len(n)]

\* the threshold makeFinders uses always being the one of the entry
ThresholdGiven(e) == e.Value.threshold

\* the threshold makeFinders uses for an entry of prog.algoParams
Threshold(e) ==
    IF e.Value.useGivenThreshold THEN e.Value.threshold
    ELSE DefaultThresholds[e.Name]

\* the strdist.FinderConfig made for an entry (Threshold and StripRunes)
FinderConfig(e) ==
    [Threshold |-> Threshold(e), StripRunes |-> e.Value.stripRunes]

\* makeFinders: the FinderConfigs it makes, in the order of the entries.
\* The algoMaker and strdist.NewFinder may refuse an entry, which ends the
\* loop: then ok is FALSE and fcs holds the configurations made by then.
makeFinders(algoParams) ==
    {[made |-> TRUE, ok |-> TRUE,
      fcs  |-> [i \in 1..Len(algoParams) |-> FinderConfig(algoParams[i])]]}
    \cup {[made |-> TRUE, ok |-> FALSE,
           fcs  |-> [i \in 1..n |-> FinderConfig(algoParams[i])]] :
                n \in 0..Len(algoParams)}

\* strdistmatch after makeParamSet: the --algo setter, prog.algoParams nil
InitAlgo ==
    /\ cfg = AlgoConfig
    /\ mapValue = <<>>
    /\ listValue = <<>>
    /\ EntryVal = ZeroValOf(cfg)
    /\ arg = NoArg
    /\ nv = ZeroNamedValueOf(cfg)
    /\ err = Nil
    /\ invoked = <<>>
    /\ ncalls = 0
    /\ setup = [allow   |-> FALSE,
                avalsOK |-> TRUE,
                evsm    |-> [k \in DOMAIN AlgoEntryValSetterMap |-> "good"],
                aliases |-> AlgoEntryValSMAliases]
    /\ valuePtr = "nilContainer"
    /\ checked = TRUE
    /\ panicked = NoPanic
    /\ finders = NoFinders

\* Prog.Run calling makeFinders, after a Parse in which no argument failed
MakeFinders ==
    /\ ~finders.made
    /\ ncalls > 0
    /\ Len(listValue) = ncalls
    /\ finders' \in makeFinders(listValue)
    /\ UNCHANGED <<cfg, mapValue, listValue, EntryVal, arg, nv, err, invoked,
                   ncalls, setup, valuePtr, checked, panicked>>

\* up to MaxCalls --algo arguments, then makeFinders
NextAlgo ==
    \/ /\ ncalls < MaxCalls
       /\ ~finders.made
       /\ \E a \in AlgoArgs : ListSetWithVal(a)
    \/ MakeFinders

SpecAlgo == InitAlgo /\ [][NextAlgo]_vars

\* a setter as constructed, before CheckSetter: any adapter, AVals, Value
\* pointer, container and setup (what AVals.Check says of an empty AVals
\* is never asked)
InitCheck ==
    /\ cfg \in [kind : {"map", "list"}, AVals : {{}, {NameA}},
                MustBeSet : {{}}, table : {"test"}]
    /\ setup \in {su \in Setups : cfg.AVals = {} => su.avalsOK}
    /\ valuePtr \in {"nil", "nilContainer", "container"}
    /\ mapValue \in IF cfg.kind = "map" /\ valuePtr = "container"
                    THEN PreMaps ELSE {<<>>}
    /\ listValue \in IF cfg.kind = "list" /\ valuePtr = "container"
                     THEN PreLists ELSE {<<>>}
    /\ EntryVal = ZeroVal
    /\ arg = NoArg
    /\ nv = ZeroNamedValue
    /\ err = Nil
    /\ invoked = <<>>
    /\ ncalls = 0
    /\ checked = FALSE
    /\ panicked = NoPanic
    /\ finders = NoFinders

\* MapMultiSetter.CheckSetter
MapCheckSetter ==
    /\ cfg.kind = "map"
    /\ ~checked
    /\ LET v == MapCheckValue(cfg, setup, valuePtr, mapValue)
       IN  /\ valuePtr' = v.ptr
           /\ panicked' \in CheckSetterPanics(cfg, setup, v)
    /\ checked' = TRUE
    /\ UNCHANGED <<cfg, mapValue, listValue, EntryVal, arg, nv, err, invoked,
                   ncalls, setup, finders>>

\* ListMultiSetter.CheckSetter
ListCheckSetter ==
    /\ cfg.kind = "list"
    /\ ~checked
    /\ LET v == ListCheckValue(cfg, setup, valuePtr, listValue)
       IN  /\ valuePtr' = v.ptr
           /\ panicked' \in CheckSetterPanics(cfg, setup, v)
    /\ checked' = TRUE
    /\ UNCHANGED <<cfg, mapValue, listValue, EntryVal, arg, nv, err, invoked,
                   ncalls, setup, finders>>

\* CheckSetter called once on the setter as constructed
NextCheck ==
    \/ MapCheckSetter
    \/ ListCheckSetter

SpecCheck == InitCheck /\ [][NextCheck]_vars

----------------------------------------------------------------------------
(* The vocabulary of the properties.  They speak of the latest call by the *)
(* argument it was given (arg) and by what it returned and left behind.    *)

\* a call has been made: arg, nv, err and invoked describe it
Called == ncalls > 0

\* the name is not empty and, when there is an allow-list, is in it
ValidName(n) == n # <<>> /\ (cfg.AVals = {} \/ n \in cfg.AVals)

Class(id) == Seg[id].class

\* the classes of segment that have the shape key="value"
Assignments == {"assign", "spaced", "rejected", "vetoed", "unknown"}

\* the positions of the assignments in a segment list
AssignIdx(segs) == {i \in 1..Len(segs) : Class(segs[i]) \in Assignments}

\* the 1-based position of assignment i among the assignments
Ordinal(segs, i) == Cardinality({j \in AssignIdx(segs) : j <= i})

\* the canonical keys the assignments of the list resolve to
Assigned(segs) == {Seg[segs[i]].canon : i \in AssignIdx(segs)}

\* the list holds only assignments of the classes cs and white space next
\* to them
Clean(segs, cs) ==
    /\ \A i \in 1..Len(segs) : Class(segs[i]) \in cs \cup {"space"}
    /\ segs # <<>> => \E i \in 1..Len(segs) : Class(segs[i]) \in cs

\* no two assignments resolve to the same canonical key
NoDup(segs) ==
    \A i, j \in AssignIdx(segs) :
        i # j => Seg[segs[i]].canon # Seg[segs[j]].canon

\* the value a field has after the assignments of the list
FieldVal(segs, key, dflt) ==
    IF key \in Assigned(segs)
    THEN Seg[segs[CHOOSE i \in AssignIdx(segs) : Seg[segs[i]].canon = key]].num
    ELSE dflt

\* the record a list without duplicates builds: assigned fields hold their
\* values, the others their defaults, the flag is raised with k
ExpectedVal(segs) ==
    [k |-> FieldVal(segs, KeyK, DfltEntryVal.k),
     m |-> FieldVal(segs, KeyM, DfltEntryVal.m),
     t |-> KeyK \in Assigned(segs)]

\* the pairs of assignments that resolve to the same key of EntryValSetterMap
DupPairs(segs) ==
    {p \in AssignIdx(segs) \X AssignIdx(segs) :
        /\ p[1] < p[2]
        /\ Seg[segs[p[1]]].canon = Seg[segs[p[2]]].canon
        /\ Seg[segs[p[1]]].canon \in DOMAIN EntryValSetterMap(cfg)}

\* the parse gets as far as segment j: the name is valid, the segments
\* before j are accepted assignments and white space, and no earlier
\* assignment repeats a key
Reaches(a, j) ==
    /\ ValidName(a.name)
    /\ \A h \in 1..(j - 1) : Class(a.segs[h]) \in {"assign", "spaced", "space"}
    /\ \A p \in DupPairs(a.segs) : p[2] >= j

\* the invocations of the setter of a key by the latest call
SetterCalls(key) ==
    {n \in 1..Len(invoked) : invoked[n][1] = "Setter" /\ invoked[n][2] = key}

\* some text of the field list is part of no assignment
Uncovered(segs) ==
    \/ \E i \in 1..Len(segs) : Class(segs[i]) = "junk"
    \/ segs # <<>> /\ AssignIdx(segs) = {}

\* the container holds nothing (the state of a new setter)
NothingStored == DOMAIN mapValue = {} /\ Len(listValue) = 0

\* the container holds the returned NamedValue where the adapter puts it
Stored ==
    \/ /\ cfg.kind = "map"
       /\ nv.Name \in DOMAIN mapValue
       /\ mapValue[nv.Name] = nv.Value
    \/ /\ cfg.kind = "list"
       /\ Len(listValue) > 0
       /\ listValue[Len(listValue)] = nv

----------------------------------------------------------------------------
(* The claims.                                                             *)

\* C1: whenever a SetWithVal call of either adapter returns an error, the
\* target container is exactly what it was before the call: the map has the
\* same keys and values, the list the same entries in the same order.
C1_ErrorLeavesValue ==
    [][err' # Nil => (mapValue' = mapValue /\ listValue' = listValue)]_vars

\* a call that failed on a container that already holds entries
C1_Witness ==
    /\ Called
    /\ err.kind = "setTwice"
    /\ \/ DOMAIN mapValue # {}
       \/ Len(listValue) > 0

\* C2: GetNamedValue succeeds for every argument whose name is valid and
\* whose field list is a well-formed sequence of assignments (key="value",
\* with white space only before and after an assignment) that names each
\* MustBeSet field once and any other field at most once, the setters and
\* post-actions succeeding; the result has the name and a record in which
\* the assigned fields hold their values and the others their defaults.
\* The sequence may be empty, with or without the '='.
C2_WellFormedParses ==
    (/\ Called
     /\ ValidName(arg.name)
     /\ Clean(arg.segs, {"assign"})
     /\ NoDup(arg.segs)
     /\ cfg.MustBeSet \subseteq Assigned(arg.segs))
    => (/\ err = Nil
        /\ nv = [Name |-> arg.name, Value |-> ExpectedVal(arg.segs)])

\* C2 where there is at least one assignment: this part of it holds
NonEmptyWellFormedParses ==
    (/\ Called
     /\ ValidName(arg.name)
     /\ arg.segs # <<>>
     /\ Clean(arg.segs, {"assign"})
     /\ NoDup(arg.segs)
     /\ cfg.MustBeSet \subseteq Assigned(arg.segs))
    => (/\ err = Nil
        /\ nv = [Name |-> arg.name, Value |-> ExpectedVal(arg.segs)]
        /\ Stored)

\* C3: duplicates are detected on the canonical key.  For any two
\* assignments of one call that resolve to the same key (the key twice, an
\* alias and its key in either order, two aliases): the call fails and
\* nothing is stored; the setter of that key is invoked at most once, and
\* only with the value of the first of its assignments, so neither the
\* setter nor a post-action of the second is invoked; and when the parse
\* gets as far as the second, the error is the duplicate-assignment error
\* for that key at the position of the second.
C3_DuplicateOnCanonicalKey ==
    Called =>
        \A p \in DupPairs(arg.segs) :
            LET key   == Seg[arg.segs[p[1]]].canon
                first == CHOOSE i \in AssignIdx(arg.segs) :
                            /\ Seg[arg.segs[i]].canon = key
                            /\ \A h \in AssignIdx(arg.segs) :
                                Seg[arg.segs[h]].canon = key => i <= h
            IN  /\ err # Nil
                /\ NothingStored
                /\ Cardinality(SetterCalls(key)) <= 1
                /\ \A n \in 1..Len(invoked) :
                        invoked[n][2] = key
                            => invoked[n][3] = Seg[arg.segs[first]].val
                /\ Reaches(arg, p[2]) =>
                        /\ err.kind = "setTwice"
                        /\ err.key = key
                        /\ err.idx = Ordinal(arg.segs, p[2])

\* an alias followed by its canonical key: the second is the duplicate
C3_Witness ==
    /\ Called
    /\ arg.segs = <<"J2", "K1">>
    /\ err.kind = "setTwice"
    /\ err.key = KeyK
    /\ err.idx = 2
    /\ invoked[1] = <<"Setter", KeyK, <<"2">>>>

\* C4: for a valid name and a non-empty, otherwise well-formed assignment
\* list, if some MustBeSet field is resolved to by no assignment, directly
\* or through an alias, GetNamedValue fails with the error that names a
\* missing mandatory key and nothing is stored.
C4_MissingMandatoryField ==
    (/\ Called
     /\ ValidName(arg.name)
     /\ arg.eq
     /\ arg.segs # <<>>
     /\ Clean(arg.segs, {"assign", "spaced"})
     /\ NoDup(arg.segs)
     /\ ~(cfg.MustBeSet \subseteq Assigned(arg.segs)))
    => (/\ err.kind = "mustBeSet"
        /\ err.key \in cfg.MustBeSet \ Assigned(arg.segs)
        /\ NothingStored)

\* k is assigned through an alias, so the missing key that is named is m
C4_Witness ==
    /\ Called
    /\ cfg.MustBeSet = {KeyK, KeyM}
    /\ arg.segs = <<"J2">>
    /\ err.kind = "mustBeSet"
    /\ err.key = KeyM

\* C5: an argument without '=' is still checked for its mandatory fields:
\* if any field is MustBeSet, the call fails and nothing is stored.
C5_NameOnlyChecksMandatory ==
    (Called /\ ~arg.eq /\ cfg.MustBeSet # {})
        => (err # Nil /\ NothingStored)

\* C6: no text of the field list is ignored: when the text after the first
\* '=' has a character that is part of no matched assignment (before the
\* first, between two, or after the last), GetNamedValue returns an error
\* and the container is unchanged.
C6_NoTextIgnored ==
    (Called /\ arg.eq /\ Uncovered(arg.segs))
        => (err # Nil /\ NothingStored)

\* text after the last assignment, nothing else wrong
C6_Witness ==
    /\ Called
    /\ arg.segs = <<"K1", "M7", "XX">>
    /\ err.kind = "textAtEnd"
    /\ err.text = <<"!">>

\* C7: the name is checked first and decides alone.  An empty name always
\* fails; with a non-empty allow-list a name outside it always fails,
\* whatever the field list holds; with an empty allow-list no non-empty
\* name fails the check.  On a name failure no setter or post-action has
\* been invoked and the scratch record is as it was (here: as constructed).
C7_NameCheckedFirst ==
    Called =>
        /\ arg.name = <<>> => err.kind = "emptyName"
        /\ (arg.name # <<>> /\ cfg.AVals # {} /\ arg.name \notin cfg.AVals)
                => (err.kind = "badName" /\ err.key = arg.name)
        /\ ValidName(arg.name) => err.kind \notin {"emptyName", "badName"}
        /\ err.kind \in {"emptyName", "badName"}
                => (invoked = <<>> /\ EntryVal = ZeroVal /\ NothingStored)

\* an empty name before an otherwise good field list
C7_Witness ==
    /\ Called
    /\ arg.name = <<>>
    /\ arg.segs = <<"K1", "M7">>
    /\ err.kind = "emptyName"
    /\ cfg.AVals = {}

\* C8: with no mandatory field, an argument that is only a valid name
\* succeeds and yields NamedValue{name, DfltEntryVal}, which the adapter
\* stores, whatever earlier calls have left in the scratch record.
C8_NameOnlyYieldsDefault ==
    (Called /\ cfg.MustBeSet = {} /\ ~arg.eq /\ ValidName(arg.name))
        => (/\ err = Nil
            /\ nv = [Name |-> arg.name, Value |-> DfltEntryVal]
            /\ Stored)

\* the scratch record holds what an earlier call set, the result does not
C8_Witness ==
    /\ Called
    /\ cfg.MustBeSet = {}
    /\ ~arg.eq
    /\ arg.name = NameB
    /\ err = Nil
    /\ EntryVal.k = 1
    /\ EntryVal.t
    /\ nv.Value = DfltEntryVal

\* C9: "name=" is no tokenizer failure.  The error for a field list that
\* yields no assignment is raised only when that text is not empty, and
\* with a valid name and no mandatory field "name=" succeeds and yields
\* the default record.
C9_EmptyFieldListParses ==
    /\ (Called /\ err.kind = "noValues") => Flatten(arg.segs) # <<>>
    /\ (/\ Called
        /\ ValidName(arg.name)
        /\ arg.eq
        /\ arg.segs = <<>>
        /\ cfg.MustBeSet = {})
       => (/\ err = Nil
           /\ nv = [Name |-> arg.name, Value |-> DfltEntryVal])

\* C10 as stated: an assignment with white space between the key and '='
\* or between '=' and the opening quote is not well-formed, so a field list
\* that holds one fails.
C10_SpacedEqualsRejected ==
    (Called /\ \E i \in 1..Len(arg.segs) : Class(arg.segs[i]) = "spaced")
        => err # Nil

\* C10 as amended: white space between the key and '=' and between '=' and
\* the opening quote is skipped.  A valid name followed by a list of
\* assignments of which some are written that way, naming no key twice and
\* every mandatory key, parses, and each assigned field holds its value.
C10_SpacedEqualsAccepted ==
    (/\ Called
     /\ ValidName(arg.name)
     /\ Clean(arg.segs, {"assign", "spaced"})
     /\ \E i \in 1..Len(arg.segs) : Class(arg.segs[i]) = "spaced"
     /\ NoDup(arg.segs)
     /\ cfg.MustBeSet \subseteq Assigned(arg.segs))
    => (/\ err = Nil
        /\ nv = [Name |-> arg.name, Value |-> ExpectedVal(arg.segs)]
        /\ Stored)

\* a=k = "6" has assigned 6 to k
C10_Witness ==
    /\ Called
    /\ arg = Arg(NameA, TRUE, <<"KW">>)
    /\ err = Nil
    /\ nv.Value.k = 6
    /\ invoked[1] = <<"Setter", KeyK, <<"6">>>>

\* C11: a successful SetWithVal of the map adapter sets the entry of the
\* map for the name to the parsed record, overwriting any earlier entry for
\* that name and leaving every other key as it was; parsing the argument
\* of the previous successful call again leaves the map as it was.
C11_MapSetsEntry ==
    [][(cfg.kind = "map" /\ err' = Nil) =>
        /\ nv'.Name = arg'.name
        /\ DOMAIN mapValue' = DOMAIN mapValue \cup {arg'.name}
        /\ mapValue'[arg'.name] = nv'.Value
        /\ \A n \in DOMAIN mapValue \ {arg'.name} : mapValue'[n] = mapValue[n]
        /\ (Called /\ err = Nil /\ arg' = arg) => mapValue' = mapValue]_vars

\* the third call has replaced the record the map held for its name by a
\* different one, next to an entry for another name
C11_Witness ==
    /\ cfg.kind = "map"
    /\ ncalls = 3
    /\ err = Nil
    /\ arg = Arg(NameA, TRUE, <<"M7">>)
    /\ DOMAIN mapValue = {NameA, NameB}
    /\ mapValue[NameB].k = 2
    /\ mapValue[NameA] = [k |-> 3, m |-> 7, t |-> FALSE]

\* C12: each successful SetWithVal of the list adapter appends exactly one
\* NamedValue, the one parsed, at the end of the list and changes no
\* element the list has; a failed call changes nothing.  So the list is
\* the results of the successful calls in call order: a name that is
\* repeated is kept each time, and no later parse, successful or failed,
\* that rewrites the scratch record alters an entry appended earlier.
C12_ListAppends ==
    [][cfg.kind = "list" =>
        /\ \A i \in 1..Len(listValue) :
                i <= Len(listValue') /\ listValue'[i] = listValue[i]
        /\ err' = Nil =>
                /\ Len(listValue') = Len(listValue) + 1
                /\ listValue'[Len(listValue')] = nv'
                /\ nv'.Name = arg'.name
        /\ err' # Nil => listValue' = listValue]_vars

\* the same argument parsed twice has left two equal entries, and a failed
\* third parse has rewritten the scratch record without touching them
C12_Witness ==
    /\ cfg.kind = "list"
    /\ ncalls = 3
    /\ Len(listValue) = 2
    /\ listValue[1] = listValue[2]
    /\ listValue[2].Value = [k |-> 1, m |-> 5, t |-> TRUE]
    /\ err.kind = "setter"
    /\ EntryVal = [k |-> 3, m |-> 7, t |-> FALSE]

\* the keys whose setter the latest call invoked
InvokedKeys == {invoked[n][2] : n \in SetterCalls(KeyK) \cup SetterCalls(KeyM)}

\* C16: no parse state leaks between calls.  Whatever calls went before,
\* successful or failed, what a call returns is what the same argument
\* returns on a newly constructed setter.  In a parse that has a field
\* list a field that the call does not assign is at its default, in the
\* scratch record and in the result, even if an earlier call assigned it
\* or a post-action of an earlier call changed it; and a duplicate is
\* reported only for a key that the argument itself assigns twice.
C16_NoStateLeaks ==
    Called =>
        /\ \E r \in GetNamedValue(cfg, ZeroVal, Render(arg)) :
                r.nv = nv /\ r.err = err /\ r.inv = invoked
        /\ (arg.eq /\ ValidName(arg.name)) =>
                /\ KeyK \notin InvokedKeys =>
                        /\ EntryVal.k = DfltEntryVal.k
                        /\ EntryVal.t = DfltEntryVal.t
                /\ KeyM \notin InvokedKeys => EntryVal.m = DfltEntryVal.m
        /\ (arg.eq /\ err = Nil) =>
                /\ KeyK \notin Assigned(arg.segs) =>
                        /\ nv.Value.k = DfltEntryVal.k
                        /\ nv.Value.t = DfltEntryVal.t
                /\ KeyM \notin Assigned(arg.segs) =>
                        nv.Value.m = DfltEntryVal.m
        /\ err.kind = "setTwice" => DupPairs(arg.segs) # {}

\* an earlier call assigned k, which raised the flag; the latest assigns
\* only m and has k and the flag at their defaults
C16_Witness ==
    /\ cfg.kind = "list"
    /\ Len(listValue) = 2
    /\ listValue[1].Value = [k |-> 1, m |-> 5, t |-> TRUE]
    /\ arg = Arg(NameA, TRUE, <<"M7">>)
    /\ err = Nil
    /\ nv.Value = [k |-> 3, m |-> 7, t |-> FALSE]
    /\ EntryVal = nv.Value

\* the number of callbacks of a key that an assignment of the class gets
\* to: all of them, or those up to the one that refuses the value
PostActionsRun(class, funcs) ==
    IF class = "vetoed"
    THEN CHOOSE n \in 1..Len(funcs) : funcs[n] = "vetoNine"
    ELSE Len(funcs)

\* the setters and callbacks a field list gets invoked, read off its
\* segments from i on: seen holds the keys assigned so far, junk tells
\* that text of no assignment has gone by.  White space is passed over; an
\* assignment that follows such text, has an unknown key or repeats a key
\* ends the parse and invokes nothing; a rejected one has only its setter
\* invoked, a vetoed one its setter and the callbacks up to the veto, and
\* both end the parse; any other has its setter and all its callbacks
\* invoked, with the canonical key.
RECURSIVE ExpectedInvoked(_, _, _, _)
ExpectedInvoked(segs, i, seen, junk) ==
    IF i > Len(segs) THEN <<>>
    ELSE
    LET sg == Seg[segs[i]] IN
    IF sg.class = "space" THEN ExpectedInvoked(segs, i + 1, seen, junk)
    ELSE IF sg.class = "junk" THEN ExpectedInvoked(segs, i + 1, seen, TRUE)
    ELSE IF junk \/ sg.class = "unknown" \/ sg.canon \in seen THEN <<>>
    ELSE
    LET funcs == EntryValSetterMap(cfg)[sg.canon].PostActionFuncs
        calls == <<(<<"Setter", sg.canon, sg.val>>)>>
                    \o [n \in 1..PostActionsRun(sg.class, funcs) |->
                            <<funcs[n], sg.canon, sg.val>>]
    IN  IF sg.class = "rejected" THEN <<(<<"Setter", sg.canon, sg.val>>)>>
        ELSE IF sg.class = "vetoed" THEN calls
        ELSE calls \o ExpectedInvoked(segs, i + 1, seen \cup {sg.canon}, junk)

\* the parse gets to apply the assignment at i: it gets as far as i and
\* the key of i has not been assigned before
Applies(a, i) ==
    /\ i \in AssignIdx(a.segs)
    /\ Reaches(a, i)
    /\ \A p \in DupPairs(a.segs) : p[2] # i

\* C18: for each assignment the setter of the field is invoked first, with
\* the raw unquoted value; its PostActionFuncs are invoked only if the
\* setter succeeded, in list order, each with the canonical key and the raw
\* value even when the assignment is written with an alias; the first
\* setter or callback that fails aborts the parse with that error, so no
\* later callback of the field and no setter or callback of a later
\* assignment is invoked.
C18_SetterThenPostActions ==
    (Called /\ ValidName(arg.name) /\ arg.eq) =>
        /\ invoked = ExpectedInvoked(arg.segs, 1, {}, FALSE)
        /\ \A n \in 1..Len(invoked) :
                /\ invoked[n][2] \in DOMAIN EntryValSetterMap(cfg)
                /\ invoked[n][1] # "Setter" =>
                        /\ n > 1
                        /\ invoked[n - 1][2] = invoked[n][2]
                        /\ invoked[n - 1][3] = invoked[n][3]
        /\ \A i \in 1..Len(arg.segs) :
                (Applies(arg, i) /\ Class(arg.segs[i]) = "rejected") =>
                    /\ err.kind = "setter"
                    /\ err.key = Seg[arg.segs[i]].canon
                    /\ err.idx = Ordinal(arg.segs, i)
                    /\ invoked[Len(invoked)]
                            = <<"Setter", err.key, Seg[arg.segs[i]].val>>
        /\ \A i \in 1..Len(arg.segs) :
                (Applies(arg, i) /\ Class(arg.segs[i]) = "vetoed") =>
                    /\ err.kind = "postAction"
                    /\ err.key = Seg[arg.segs[i]].canon
                    /\ invoked[Len(invoked)]
                            = <<"vetoNine", err.key, Seg[arg.segs[i]].val>>
        /\ \A i \in 1..Len(arg.segs) :
                (Applies(arg, i) /\ Class(arg.segs[i]) \in {"assign", "spaced"})
                    => ~(/\ err.kind \in {"setter", "postAction"}
                         /\ err.key = Seg[arg.segs[i]].canon)

\* an assignment through an alias followed by one whose value a callback
\* refuses: the callbacks of the first got the canonical key, the last
\* callback of the second and the third assignment were not invoked
C18_Witness ==
    /\ Called
    /\ arg = Arg(NameA, TRUE, <<"M7", "K9", "Z1">>)
    /\ err.kind = "postAction"
    /\ invoked = << <<"Setter", KeyM, <<"7">>>>,
                    <<"Setter", KeyK, <<"9">>>>,
                    <<"raiseFlag", KeyK, <<"9">>>>,
                    <<"vetoNine", KeyK, <<"9">>>> >>

\* the positions of the text that is part of no assignment
JunkIdx(segs) == {i \in 1..Len(segs) : Class(segs[i]) = "junk"}

\* the first assignment that has such text somewhere before it, if any
AfterJunk(segs) ==
    {i \in AssignIdx(segs) :
        /\ \E j \in JunkIdx(segs) : j < i
        /\ \A h \in AssignIdx(segs) :
                (\E j \in JunkIdx(segs) : j < h) => i <= h}

\* the assignments before position i are accepted ones and none of them
\* repeats a key
AcceptedBefore(segs, i) ==
    /\ \A h \in AssignIdx(segs) :
            h < i => Class(segs[h]) \in {"assign", "spaced"}
    /\ \A p \in DupPairs(segs) : p[2] >= i

IsIdentifier(k) ==
    /\ k # <<>>
    /\ k[1] \in Lower \cup Upper \cup {"_"}
    /\ \A i \in 1..Len(k) : k[i] \in Lower \cup Upper \cup Digit \cup {"_"}

\* C13: the configuration check is fatal for every EntryValSetterMap key
\* that does not match the identifier grammar in full (such as "1abc",
\* "a-b", "a b"); it passes only keys that match the grammar as a whole.
C13_BadKeyIsFatal ==
    (checked /\ \E k \in DOMAIN setup.evsm : ~IsIdentifier(k))
        => panicked # NoPanic

\* the names of the entries the container holds
PreNames ==
    IF cfg.kind = "map" THEN DOMAIN mapValue
    ELSE {listValue[i].Name : i \in 1..Len(listValue)}

\* C14: the container check of both adapters is fatal when the Value
\* pointer is nil; with a non-empty AVals and the allow flag false it is
\* fatal exactly when some entry the container holds has a name that is
\* not in AVals; with an empty AVals or the flag true no entry makes it
\* fail; and a non-nil pointer to a nil map is left pointing to an empty
\* map, which is what the caller then sees.
C14_ContainerCheck ==
    [][(~checked /\ checked') =>
        /\ (valuePtr = "nil") <=> (panicked'.kind = "nilValue")
        /\ (valuePtr # "nil" /\ cfg.AVals # {} /\ ~setup.allow) =>
                ((panicked'.kind = "badEntry")
                    <=> (\E n \in PreNames : n \notin cfg.AVals))
        /\ (cfg.AVals = {} \/ setup.allow) => panicked'.kind # "badEntry"
        /\ panicked'.kind = "badEntry" =>
                panicked'.key \in PreNames \ cfg.AVals
        /\ (cfg.kind = "map" /\ valuePtr = "nilContainer") =>
                (valuePtr' = "container" /\ DOMAIN mapValue' = {})
        /\ mapValue' = mapValue
        /\ listValue' = listValue]_vars

\* a list that holds an entry named in AVals and one that is not, the flag
\* being false: the check has ended with the panic for the second
C14_Witness ==
    /\ checked
    /\ cfg.kind = "list"
    /\ cfg.AVals = {NameA}
    /\ ~setup.allow
    /\ Len(listValue) = 2
    /\ listValue[1].Name = NameA
    /\ listValue[2].Name = NameB
    /\ panicked = Panic("badEntry", NameB)

\* the checks made before the alias tables are looked at have passed
AliasCheckReached ==
    checked /\ panicked.kind \in {"none", "aliasIsKey", "aliasNoTarget"}

\* C15: the check of the alias table is fatal exactly when some alias is
\* also a key of EntryValSetterMap or the target of some alias is not a
\* key of EntryValSetterMap.  So with a setter that passes the check
\* getSetter resolves a key of EntryValSetterMap to itself and an alias to
\* its target, which is a key, and fails for every other key as an unknown
\* sub-value name.
C15_AliasCheck ==
    AliasCheckReached =>
        /\ (panicked # NoPanic) <=>
                (\E a \in DOMAIN setup.aliases :
                    \/ a \in DOMAIN setup.evsm
                    \/ setup.aliases[a] \notin DOMAIN setup.evsm)
        /\ panicked = NoPanic =>
                \A raw \in KeyPool \cup AliasKeyPool \cup AliasTargetPool :
                    LET g == getSetterIn(setup.evsm, setup.aliases, 0, raw)
                    IN  /\ raw \in DOMAIN setup.evsm =>
                                (g.err = Nil /\ g.evKey = raw)
                        /\ raw \in DOMAIN setup.aliases =>
                                /\ raw \notin DOMAIN setup.evsm
                                /\ g.err = Nil
                                /\ g.evKey = setup.aliases[raw]
                                /\ g.evKey \in DOMAIN setup.evsm
                        /\ raw \notin DOMAIN setup.evsm
                                    \cup DOMAIN setup.aliases =>
                                /\ g.err.kind = "badSubValName"
                                /\ g.err.key = raw

\* a setter with the keys k and m and the alias j for m has passed
C15_Witness ==
    /\ checked
    /\ panicked = NoPanic
    /\ DOMAIN setup.evsm = {KeyK, KeyM}
    /\ setup.aliases = (AliasJ :> KeyM)
    /\ getSetterIn(setup.evsm, setup.aliases, 0, AliasJ).evKey = KeyM

\* C19: for every sequence of --algo arguments, the entry stored in
\* prog.algoParams for an argument has useGivenThreshold true if and only
\* if that argument assigned threshold, by its key or by its alias, and
\* then holds the threshold given; so makeFinders uses the given threshold
\* for exactly those entries and strdist.DefaultThresholds of the name for
\* all others, whatever an earlier argument has set.
C19_ThresholdPerArgument ==
    [][/\ (ncalls' = ncalls + 1 /\ err' = Nil) =>
            LET e     == listValue'[Len(listValue')]
                given == KeyThreshold \in Assigned(arg'.segs)
            IN  /\ Len(listValue') = Len(listValue) + 1
                /\ \A i \in 1..Len(listValue) : listValue'[i] = listValue[i]
                /\ e.Name = arg'.name
                /\ (e.Value.useGivenThreshold) <=> given
                /\ given => e.Value.threshold
                                = FieldVal(arg'.segs, KeyThreshold, 0)
       /\ (finders'.made /\ ~finders.made) =>
            /\ finders'.ok => Len(finders'.fcs) = Len(listValue)
            /\ \A i \in 1..Len(finders'.fcs) :
                    finders'.fcs[i].Threshold =
                        IF listValue[i].Value.useGivenThreshold
                        THEN listValue[i].Value.threshold
                        ELSE DefaultThresholds[listValue[i].Name]]_vars

\* threshold given by the first argument, not by the second, and given
\* through the alias by the third: the finders have the thresholds 2, the
\* default of the second name, and 4
C19_Witness ==
    /\ finders.made
    /\ finders.ok
    /\ Len(listValue) = 3
    /\ listValue[1].Value.useGivenThreshold
    /\ ~listValue[2].Value.useGivenThreshold
    /\ listValue[2].Value.nGramLen = 2
    /\ listValue[3].Value.useGivenThreshold
    /\ finders.fcs[1].Threshold = 2
    /\ finders.fcs[2].Threshold = DefaultThresholds[listValue[2].Name]
    /\ finders.fcs[3].Threshold = 4

\* some rune occurs more than once in the value
HasDuplicateRune(v) == \E i, j \in 1..Len(v) : i # j /\ v[i] = v[j]

\* C20: the check of stripRunes rejects every value in which some rune
\* occurs more than once, so that an --algo argument that assigns such a
\* value fails with the error of the stripRunes setter and stores
\* nothing, and accepts every value whose runes are all distinct.
C20_DuplicateRunesRejected ==
    Called =>
        \A i \in 1..Len(arg.segs) :
            (Seg[arg.segs[i]].canon = KeyStripRunes /\ Reaches(arg, i)) =>
                IF HasDuplicateRune(Seg[arg.segs[i]].val)
                THEN /\ err.kind = "setter"
                     /\ err.key = KeyStripRunes
                     /\ Len(listValue) < ncalls
                ELSE ~(err.kind = "setter" /\ err.key = KeyStripRunes)

====
